---- MODULE Spec2Model ----
(***************************************************************************)
(* Model of the CSV merge tools:                                           *)
(*   csv_merge_analyzer.py  class CSVMergeAnalyzer (load_csvs,             *)
(*                          build_connection_graph, analyze_coverage,      *)
(*                          find_merge_path, execute_merge / smart_merge)  *)
(*   merge_debugger.py      debug_merge_duplicates and                     *)
(*                          simulate_merge_step_by_step                    *)
(*                                                                         *)
(* A dataset (CSV file) is named by its position in the directory listing  *)
(* (csv_file.stem).  Column names are the numbers 1..NumCols; a name that  *)
(* pandas suffixes is the number plus the suffix's offset.  networkx's     *)
(* Graph is modelled with its insertion-ordered node and adjacency dicts,  *)
(* because the order of G.edges() decides the merge plan.                  *)
(***************************************************************************)
EXTENDS Integers, Sequences, FiniteSets, TLC

\* ---------------------------------------------------------------- bounds
MaxCsv == 5
NumCols == 4
MaxColsPerCsv == 2
MaxRows == 3
MaxChainRows == 1
MaxVal == 2
MaxDbgCsv == 3
MaxTextRows == 2
MaxTextLen == 2

\* pandas' missing value (NaN), which an outer join fills in
NaN == 0
\* pandas' default suffixes "_x" / "_y" and the debugger's "_1" / "_2",
\* as offsets added to a column's number
SfxX == 10
SfxY == 20
Sfx1 == 30
Sfx2 == 40

Cols == 1..NumCols
Vals == 1..MaxVal
CsvNames == 1..MaxCsv

VARIABLES
    files,         \* the directory: per file, readable?, header, data rows
    pc,            \* position in the run
    csvs,          \* self.csvs, in insertion order
    csv_graph,     \* self.csv_graph
    analysis,      \* the dict analyze_coverage last returned to the caller
    merge_path,    \* execute_merge: the steps still to run
    result,        \* execute_merge: the accumulated DataFrame
    merged_csvs,   \* execute_merge: the set merged_csvs
    reads,         \* every full pd.read_csv(path), in order
    joins,         \* every smart_merge call: left, right, on and the outcome
    output,        \* the file result.to_csv wrote, if any
    dbg_csvs,      \* merge_debugger: csvs, the loaded tables in order
    dup_report,    \* merge_debugger: per (column, csv) the duplicate count and flag
    common_report, \* merge_debugger: per (column, csv1, csv2) the common values
    sim_report     \* merge_debugger: what simulate_merge_step_by_step printed

\* the analyzer's variables and the debugger's
avars == <<csvs, csv_graph, analysis, merge_path, result, merged_csvs, reads,
           joins, output>>
dvars == <<dbg_csvs, dup_report, common_report, sim_report>>

vars == <<files, pc, avars, dvars>>

\* ------------------------------------------------------- sequence helpers
Range(s) == {s[i] : i \in 1..Len(s)}

Contains(s, x) == \E i \in 1..Len(s) : s[i] = x

\* the number of occurrences of x in s
Count(s, x) == Cardinality({i \in 1..Len(s) : s[i] = x})

RECURSIVE Concat(_)
Concat(ss) == IF ss = <<>> THEN <<>> ELSE Head(ss) \o Concat(Tail(ss))

\* the position of x in s (the first one)
Pos(s, x) == CHOOSE i \in 1..Len(s) : s[i] = x /\ \A j \in 1..(i - 1) : s[j] # x

Min(S) == CHOOSE x \in S : \A y \in S : x <= y

RECURSIVE SortedSeq(_)
SortedSeq(S) == IF S = {} THEN <<>> ELSE <<Min(S)>> \o SortedSeq(S \ {Min(S)})

\* list(a_set): Python iterates a set in an order fixed by the elements'
\* hashes.  Here it is the order of the numbers; it decides only the order of
\* the names inside on_columns and a frame's columns.
ListOfSet(S) == SortedSeq(S)

\* ------------------------------------------------------- networkx.Graph
NoAdj == [n \in CsvNames |-> <<>>]
NoAttr == [e \in CsvNames \X CsvNames |-> <<>>]
EmptyGraph == [nodes |-> <<>>, adj |-> NoAdj, attr |-> NoAttr]

AddNode(G, n) ==
    IF Contains(G.nodes, n) THEN G ELSE [G EXCEPT !.nodes = Append(@, n)]

\* G.add_edge(u, v, shared_columns=d)
AddEdge(G, u, v, d) ==
    LET G1 == AddNode(AddNode(G, u), v)
    IN  [G1 EXCEPT !.adj[u] = IF Contains(@, v) THEN @ ELSE Append(@, v),
                   !.adj[v] = IF Contains(@, u) THEN @ ELSE Append(@, u),
                   !.attr[<<u, v>>] = d,
                   !.attr[<<v, u>>] = d]

Degree(G, n) == Len(G.adj[n])

\* G.edges(data=True): for each node in node order, its neighbours in
\* adjacency order, skipping the nodes already iterated
RECURSIVE EdgesFrom(_, _, _)
EdgesFrom(G, i, seen) ==
    IF i > Len(G.nodes) THEN <<>>
    ELSE LET n == G.nodes[i]
             nbrs == SelectSeq(G.adj[n], LAMBDA m : m \notin seen)
         IN  [k \in 1..Len(nbrs) |-> <<n, nbrs[k]>>]
             \o EdgesFrom(G, i + 1, seen \cup {n})

Edges(G) == EdgesFrom(G, 1, {})

\* the nodes reachable from the node set R
RECURSIVE Reach(_, _)
Reach(G, R) ==
    LET R1 == R \cup {m \in Range(G.nodes) : \E n \in R : Contains(G.adj[n], m)}
    IN  IF R1 = R THEN R ELSE Reach(G, R1)

\* nx.is_connected(G), for a graph with at least one node
IsConnected(G) == Reach(G, {G.nodes[1]}) = Range(G.nodes)

\* Kruskal over the edges in G.edges() order (all weights are the default 1
\* and sorted() is stable); comp is the union-find partition
RECURSIVE KruskalFrom(_, _, _)
KruskalFrom(es, i, comp) ==
    IF i > Len(es) THEN <<>>
    ELSE LET u == es[i][1]
             v == es[i][2]
         IN  IF comp[u] = comp[v] THEN KruskalFrom(es, i + 1, comp)
             ELSE <<es[i]>> \o KruskalFrom(es, i + 1,
                      [n \in CsvNames |-> IF comp[n] = comp[v] THEN comp[u] ELSE comp[n]])

KruskalEdges(G) == KruskalFrom(Edges(G), 1, [n \in CsvNames |-> n])

RECURSIVE AddEdgesFrom(_, _, _, _)
AddEdgesFrom(T, G, es, i) ==
    IF i > Len(es) THEN T
    ELSE AddEdgesFrom(AddEdge(T, es[i][1], es[i][2], G.attr[es[i]]), G, es, i + 1)

\* nx.minimum_spanning_tree(G): G's nodes in G's order, then the Kruskal edges
MinimumSpanningTree(G) ==
    AddEdgesFrom([EmptyGraph EXCEPT !.nodes = G.nodes], G, KruskalEdges(G), 1)

\* ------------------------------------------------------- pandas.DataFrame
NoFrame == [columns |-> <<>>, rows |-> <<>>]

\* pd.read_csv(path): the whole table
ReadCsv(f) == [columns |-> f.columns, rows |-> f.rows]

Cell(df, row, c) == row[Pos(df.columns, c)]

\* df[cols]
Project(df, cols) ==
    [columns |-> cols,
     rows |-> [i \in 1..Len(df.rows) |->
                  [k \in 1..Len(cols) |-> Cell(df, df.rows[i], cols[k])]]]

\* ------------------------------------------------------------------ state
NoAnalysis ==
    [valid |-> FALSE, csv_count |-> 0, connections |-> <<>>,
     isolated_csvs |-> <<>>, all_columns |-> {},
     shared_columns |-> [c \in Cols |-> <<>>],
     merge_path |-> [some |-> FALSE, steps |-> <<>>],
     is_mergeable |-> FALSE]

\* ---------------------------------------------------------------- inputs
ColumnSets == {S \in SUBSET Cols : S # {} /\ Cardinality(S) <= MaxColsPerCsv}

Unreadable == [ok |-> FALSE, columns |-> <<>>, rows |-> <<>>]

HeaderOnlyFiles ==
    {[ok |-> TRUE, columns |-> ListOfSet(S), rows |-> <<>>] : S \in ColumnSets}
    \cup {Unreadable}

Tables(colsets, maxrows, vals) ==
    UNION {{[ok |-> TRUE, columns |-> ListOfSet(S), rows |-> r] :
               r \in UNION {[1..m -> [1..Cardinality(S) -> vals]] : m \in 0..maxrows}} :
           S \in colsets}

\* Column names are interchangeable, so a directory is taken with its columns
\* numbered in the order the files first use them: the columns of the first
\* i files are 1..k for some k.
FirstUseOrder(fs) ==
    \A i \in 1..Len(fs) :
        LET used == UNION {Range(fs[j].columns) : j \in 1..i}
        IN  used = 1..Cardinality(used)

\* the directories of n files drawn from opts, built file by file
RECURSIVE DirsOf(_, _)
DirsOf(n, opts) ==
    IF n = 0 THEN {<<>>}
    ELSE {Append(x[1], x[2]) :
             x \in {y \in DirsOf(n - 1, opts) \X opts : FirstUseOrder(Append(y[1], y[2]))}}

\* directories of header-only files, of two tables, and of three short tables
Directories ==
    UNION {DirsOf(n, HeaderOnlyFiles) : n \in 0..MaxCsv}
    \cup DirsOf(2, Tables({S \in ColumnSets : S \subseteq 1..2}, MaxRows, Vals))
    \cup DirsOf(3, Tables({S \in ColumnSets : S \subseteq 1..3}, MaxChainRows, Vals))

Init ==
    /\ files \in Directories
    /\ pc = "start"
    /\ csvs = <<>>
    /\ csv_graph = EmptyGraph
    /\ analysis = NoAnalysis
    /\ merge_path = <<>>
    /\ result = NoFrame
    /\ merged_csvs = {}
    /\ reads = <<>>
    /\ joins = <<>>
    /\ output = <<>>
    /\ dbg_csvs = <<>>
    /\ dup_report = <<>>
    /\ common_report = <<>>
    /\ sim_report = <<>>

\* ------------------------------------------------- CSVMergeAnalyzer
\* load_csvs: pd.read_csv(csv_file, nrows=0) per file; a file that raises
\* is reported and left out
LoadedEntry(i) ==
    [name |-> i, columns |-> Range(files[i].columns), column_list |-> files[i].columns]

LoadCsvs ==
    /\ pc = "start"
    /\ csvs' = LET ok == SelectSeq([i \in 1..Len(files) |-> i], LAMBDA i : files[i].ok)
               IN  [k \in 1..Len(ok) |-> LoadedEntry(ok[k])]
    /\ pc' = "loaded"
    /\ UNCHANGED <<files, csv_graph, analysis, merge_path, result, merged_csvs,
                   reads, joins, output, dvars>>

CsvColumns(cs, name) == cs[CHOOSE k \in 1..Len(cs) : cs[k].name = name].columns

CsvNamesOf(cs) == [k \in 1..Len(cs) |-> cs[k].name]

\* SharedCols with "|" written for "&": a fault C1 must detect
SharedColsUnion(cs, csv1, csv2) == CsvColumns(cs, csv1) \cup CsvColumns(cs, csv2)

\* shared_cols = self.csvs[csv1]['columns'] & self.csvs[csv2]['columns']
SharedCols(cs, csv1, csv2) == CsvColumns(cs, csv1) \cap CsvColumns(cs, csv2)

\* the double loop of build_connection_graph: csv1 = names[i], csv2 = names[j]
RECURSIVE ConnectFrom(_, _, _, _)
ConnectFrom(G, cs, i, j) ==
    LET names == CsvNamesOf(cs)
    IN  IF i > Len(names) THEN G
        ELSE IF j > Len(names) THEN ConnectFrom(G, cs, i + 1, i + 2)
        ELSE LET shared_cols == SharedCols(cs, names[i], names[j])
             IN  ConnectFrom(IF shared_cols # {}
                               THEN AddEdge(G, names[i], names[j], ListOfSet(shared_cols))
                               ELSE G,
                             cs, i, j + 1)

RECURSIVE AddNodesFrom(_, _, _)
AddNodesFrom(G, names, i) ==
    IF i > Len(names) THEN G ELSE AddNodesFrom(AddNode(G, names[i]), names, i + 1)

BuildGraph(G, cs) == AddNodesFrom(ConnectFrom(G, cs, 1, 2), CsvNamesOf(cs), 1)

BuildConnectionGraph ==
    /\ pc = "loaded"
    /\ csv_graph' = BuildGraph(csv_graph, csvs)
    /\ pc' = "built"
    /\ UNCHANGED <<files, csvs, analysis, merge_path, result, merged_csvs,
                   reads, joins, output, dvars>>

\* find_merge_path: None unless connected, else one step per edge of the
\* spanning tree, in mst.edges(data=True) order
MstEdgeOrder(G) == Edges(MinimumSpanningTree(G))

FindMergePath(G) ==
    IF ~IsConnected(G) THEN [some |-> FALSE, steps |-> <<>>]
    ELSE LET edges == MstEdgeOrder(G)
         IN  [some |-> TRUE,
              steps |-> [k \in 1..Len(edges) |->
                            [merge |-> edges[k], on_columns |-> G.attr[edges[k]]]]]

Connections(G) ==
    LET es == Edges(G)
    IN  [k \in 1..Len(es) |->
            [csv1 |-> es[k][1], csv2 |-> es[k][2], shared_columns |-> G.attr[es[k]]]]

\* analysis['isolated_csvs']
IsolatedCsvs(G, cs) ==
    SelectSeq(CsvNamesOf(cs), LAMBDA c : ~Contains(G.nodes, c) \/ Degree(G, c) = 0)

\* IsMergeable as "no dataset is isolated": a fault C5 must detect
IsMergeableNoIsolated(G) ==
    Len(G.nodes) > 0 /\ \A n \in Range(G.nodes) : Degree(G, n) > 0

\* analysis['is_mergeable']
IsMergeable(G) == Len(G.nodes) > 0 /\ IsConnected(G)

\* the dict analyze_coverage returns
Analysis(G, cs) ==
    LET conns == Connections(G)
    IN  [valid |-> TRUE,
         csv_count |-> Len(cs),
         connections |-> conns,
         isolated_csvs |-> IsolatedCsvs(G, cs),
         all_columns |-> UNION {cs[k].columns : k \in 1..Len(cs)},
         shared_columns |->
             [c \in Cols |->
                 Concat([k \in 1..Len(conns) |->
                            IF Contains(conns[k].shared_columns, c)
                            THEN <<conns[k].csv1, conns[k].csv2>> ELSE <<>>])],
         merge_path |-> IF IsMergeable(G) THEN FindMergePath(G)
                        ELSE [some |-> FALSE, steps |-> <<>>],
         is_mergeable |-> IsMergeable(G)]

AnalyzeCoverage ==
    /\ pc = "built"
    /\ analysis' = Analysis(csv_graph, csvs)
    /\ pc' = "analyzed"
    /\ UNCHANGED <<files, csvs, csv_graph, merge_path, result, merged_csvs,
                   reads, joins, output, dvars>>

\* ------------------------------------------------------------ pd.merge
\* the join with how='left', the unmatched right rows dropped: a fault C8
\* must detect
LeftPairs(lkeys, rkeys) ==
    LET matches(i) == SelectSeq([j \in 1..Len(rkeys) |-> j], LAMBDA j : rkeys[j] = lkeys[i])
        ofLeft(i)  == IF matches(i) = <<>> THEN << <<i, 0>> >>
                      ELSE [k \in 1..Len(matches(i)) |-> <<i, matches(i)[k]>>]
    IN  Concat([i \in 1..Len(lkeys) |-> ofLeft(i)])

\* the rows of an outer join, as pairs <<left row or 0, right row or 0>>:
\* each left row with every right row of the same key, or alone; then the
\* right rows no left row matched
OuterPairs(lkeys, rkeys) ==
    LET matches(i) == SelectSeq([j \in 1..Len(rkeys) |-> j], LAMBDA j : rkeys[j] = lkeys[i])
        ofLeft(i)  == IF matches(i) = <<>> THEN << <<i, 0>> >>
                      ELSE [k \in 1..Len(matches(i)) |-> <<i, matches(i)[k]>>]
        lonely     == SelectSeq([j \in 1..Len(rkeys) |-> j],
                                LAMBDA j : \A i \in 1..Len(lkeys) : lkeys[i] # rkeys[j])
    IN  Concat([i \in 1..Len(lkeys) |-> ofLeft(i)])
        \o [k \in 1..Len(lonely) |-> <<0, lonely[k]>>]

KeysOf(df, on) == [i \in 1..Len(df.rows) |-> [k \in 1..Len(on) |-> Cell(df, df.rows[i], on[k])]]

\* pd.merge(left, right, on=on, how='outer', suffixes=(sl, sr)), for frames
\* that both hold every column of on: the left columns, then the right
\* columns that are not keys; a non-key name on both sides gets the suffixes
PdMerge(left, right, on, sl, sr) ==
    LET onset   == Range(on)
        overlap == (Range(left.columns) \cap Range(right.columns)) \ onset
        rcols   == SelectSeq(right.columns, LAMBDA c : c \notin onset)
        pairs   == OuterPairs(KeysOf(left, on), KeysOf(right, on))
        lcell(p, c) == IF p[1] # 0 THEN Cell(left, left.rows[p[1]], c)
                       ELSE IF c \in onset THEN Cell(right, right.rows[p[2]], c)
                       ELSE NaN
        rcell(p, c) == IF p[2] # 0 THEN Cell(right, right.rows[p[2]], c) ELSE NaN
    IN  [columns |->
             [k \in 1..Len(left.columns) |->
                 IF left.columns[k] \in overlap THEN left.columns[k] + sl
                 ELSE left.columns[k]]
             \o [k \in 1..Len(rcols) |->
                    IF rcols[k] \in overlap THEN rcols[k] + sr ELSE rcols[k]],
         rows |->
             [n \in 1..Len(pairs) |->
                 [k \in 1..Len(left.columns) |-> lcell(pairs[n], left.columns[k])]
                 \o [k \in 1..Len(rcols) |-> rcell(pairs[n], rcols[k])]]]

\* pd.merge raises KeyError when a key column is missing on a side
MergeRaises(left, right, on) ==
    ~(Range(on) \subseteq Range(left.columns) /\ Range(on) \subseteq Range(right.columns))

\* right_unique_cols without its filter: a fault C7 must detect
RightAllCols(left_df, right_df, on_columns) == right_df.columns

\* smart_merge's right_unique_cols
RightUniqueCols(left_df, right_df, on_columns) ==
    SelectSeq(right_df.columns,
              LAMBDA col : ~Contains(left_df.columns, col) \/ Contains(on_columns, col))

SmartMerge(left_df, right_df, on_columns) ==
    PdMerge(left_df, Project(right_df, RightUniqueCols(left_df, right_df, on_columns)),
            on_columns, SfxX, SfxY)

SmartMergeRaises(left_df, right_df, on_columns) ==
    MergeRaises(left_df, Project(right_df, RightUniqueCols(left_df, right_df, on_columns)),
                on_columns)

\* what one smart_merge call of execute_merge was given and returned
JoinRecord(left_df, right_df, merge_op, new, merged) ==
    [left |-> left_df, right |-> right_df, on |-> merge_op.on_columns,
     merge |-> merge_op.merge, new |-> new, merged_before |-> merged,
     raised |-> SmartMergeRaises(left_df, right_df, merge_op.on_columns),
     out |-> IF SmartMergeRaises(left_df, right_df, merge_op.on_columns) THEN NoFrame
             ELSE SmartMerge(left_df, right_df, merge_op.on_columns)]

\* ---------------------------------------------------------- execute_merge
\* up to and including the first merge
ExecuteMergeBegin ==
    /\ pc = "analyzed"
    /\ LET a == Analysis(csv_graph, csvs)
       IN  IF ~a.is_mergeable \/ a.merge_path.steps = <<>>
           THEN /\ pc' = "returned_none"
                /\ UNCHANGED <<merge_path, result, merged_csvs, reads, joins>>
           ELSE LET first_merge == a.merge_path.steps[1]
                    csv1_name == first_merge.merge[1]
                    csv2_name == first_merge.merge[2]
                    df1 == ReadCsv(files[csv1_name])
                    df2 == ReadCsv(files[csv2_name])
                    j == JoinRecord(df1, df2, first_merge, csv2_name, {})
                IN  /\ reads' = <<csv1_name, csv2_name>>
                    /\ joins' = <<j>>
                    /\ result' = j.out
                    /\ merged_csvs' = {csv1_name, csv2_name}
                    /\ merge_path' = Tail(a.merge_path.steps)
                    /\ pc' = IF j.raised THEN "raised" ELSE "merging"
    /\ UNCHANGED <<files, csvs, csv_graph, analysis, output, dvars>>

\* the CSV a later step loads: "the one not already merged"
NextCsv(merge_op, merged) ==
    IF merge_op.merge[1] \in merged THEN merge_op.merge[2] ELSE merge_op.merge[1]

\* one iteration of "for merge_op in merge_path[1:]"
ExecuteMergeStep ==
    /\ pc = "merging"
    /\ merge_path # <<>>
    /\ LET merge_op == Head(merge_path)
           next_csv == NextCsv(merge_op, merged_csvs)
           next_df == ReadCsv(files[next_csv])
           j == JoinRecord(result, next_df, merge_op, next_csv, merged_csvs)
       IN  /\ reads' = Append(reads, next_csv)
           /\ joins' = Append(joins, j)
           /\ IF j.raised
              THEN /\ pc' = "raised"
                   /\ UNCHANGED <<result, merged_csvs, merge_path>>
              ELSE /\ result' = j.out
                   /\ merged_csvs' = merged_csvs \cup {next_csv}
                   /\ merge_path' = Tail(merge_path)
                   /\ pc' = "merging"
    /\ UNCHANGED <<files, csvs, csv_graph, analysis, output, dvars>>

\* result.to_csv(output_file, index=False); return result
ExecuteMergeSave ==
    /\ pc = "merging"
    /\ merge_path = <<>>
    /\ output' = <<result>>
    /\ pc' = "saved"
    /\ UNCHANGED <<files, csvs, csv_graph, analysis, merge_path, result,
                   merged_csvs, reads, joins, dvars>>

Next ==
    \/ LoadCsvs
    \/ BuildConnectionGraph
    \/ AnalyzeCoverage
    \/ ExecuteMergeBegin
    \/ ExecuteMergeStep
    \/ ExecuteMergeSave

Spec == Init /\ [][Next]_vars


\* ------------------------------------------------------ merge_debugger.py
\* A cell of the debugger's tables is a text, a sequence of characters.
Chars == {"A", "a", " "}

Texts(n) == UNION {[1..m -> Chars] : m \in 1..n}

\* str.lower()
Lower(t) == [i \in 1..Len(t) |-> IF t[i] = "A" THEN "a" ELSE t[i]]

\* str.strip()
RECURSIVE LStrip(_)
LStrip(t) == IF t # <<>> /\ Head(t) = " " THEN LStrip(Tail(t)) ELSE t

RECURSIVE RStrip(_)
RStrip(t) ==
    IF t # <<>> /\ t[Len(t)] = " " THEN RStrip(SubSeq(t, 1, Len(t) - 1)) ELSE t

Strip(t) == RStrip(LStrip(t))

\* astype(str) of a text cell is the text
AsStr(v) == v

\* df[col]
Column(df, col) == [i \in 1..Len(df.rows) |-> Cell(df, df.rows[i], col)]

\* series.duplicated().sum(): the rows equal to an earlier row
DuplicatedSum(values) ==
    Cardinality({i \in 1..Len(values) : \E j \in 1..(i - 1) : values[j] = values[i]})

\* cleaned_col without .str.lower(): a fault C10 must detect
CleanedColNoLower(values) == [i \in 1..Len(values) |-> Strip(AsStr(values[i]))]

\* df[col].astype(str).str.strip().str.lower()
CleanedCol(values) == [i \in 1..Len(values) |-> Lower(Strip(AsStr(values[i])))]

\* the case/whitespace test
CaseWhitespaceFlag(values) == DuplicatedSum(CleanedCol(values)) > DuplicatedSum(values)

\* the keys of a Counter / dict in insertion order
RECURSIVE FirstSeen(_, _)
FirstSeen(s, seen) ==
    IF s = <<>> THEN <<>>
    ELSE IF Head(s) \in seen THEN FirstSeen(Tail(s), seen)
    ELSE <<Head(s)>> \o FirstSeen(Tail(s), seen \cup {Head(s)})

\* potential_join_cols: the columns counted in more than one CSV
PotentialJoinCols(cs) ==
    LET all == Concat([k \in 1..Len(cs) |-> cs[k].df.columns])
    IN  SelectSeq(FirstSeen(all, {}), LAMBDA col : Count(all, col) > 1)

Having(cs, col) == SelectSeq(cs, LAMBDA e : Contains(e.df.columns, col))

\* load_csv_robust per file; a file that cannot be loaded ends the run
DebugLoad ==
    /\ pc = "start"
    /\ LET bad == {i \in 1..Len(files) : ~files[i].ok}
           n == IF bad = {} THEN Len(files) ELSE Min(bad) - 1
       IN  /\ dbg_csvs' = [i \in 1..n |-> [name |-> i, df |-> ReadCsv(files[i])]]
           /\ pc' = IF bad = {} THEN "dbg_loaded" ELSE "exit"
    /\ UNCHANGED <<files, avars, dup_report, common_report, sim_report>>

\* "Check for duplicates in each potential join column"
DebugCheckDuplicates ==
    /\ pc = "dbg_loaded"
    /\ dup_report' =
           LET cols == PotentialJoinCols(dbg_csvs)
               ofCol(col) ==
                   LET h == Having(dbg_csvs, col)
                   IN  [k \in 1..Len(h) |->
                           [col |-> col, csv |-> h[k].name,
                            dup_count |-> DuplicatedSum(Column(h[k].df, col)),
                            case_flag |-> CaseWhitespaceFlag(Column(h[k].df, col))]]
           IN  Concat([c \in 1..Len(cols) |-> ofCol(cols[c])])
    /\ pc' = "dbg_checked"
    /\ UNCHANGED <<files, avars, dbg_csvs, common_report, sim_report>>

\* "Check for cross-CSV issues": each pair of the CSVs holding the column
DebugValueAnalysis ==
    /\ pc = "dbg_checked"
    /\ common_report' =
           LET cols == PotentialJoinCols(dbg_csvs)
               ofCol(col) ==
                   LET h == Having(dbg_csvs, col)
                       ofFirst(i) ==
                           [d \in 1..(Len(h) - i) |->
                               [col |-> col, csv1 |-> h[i].name, csv2 |-> h[i + d].name,
                                common |-> Cardinality(Range(Column(h[i].df, col))
                                                       \cap Range(Column(h[i + d].df, col)))]]
                   IN  Concat([i \in 1..Len(h) |-> ofFirst(i)])
           IN  Concat([c \in 1..Len(cols) |-> ofCol(cols[c])])
    /\ pc' = "dbg_analyzed"
    /\ UNCHANGED <<files, avars, dbg_csvs, dup_report, sim_report>>

\* the explosion test with "or" written for "and": a fault C9 must detect
ExplosionEither(after, rows1, rows2) == after > rows1 \/ after > rows2

\* len(merged) > len(df1) and len(merged) > len(df2)
Explosion(after, rows1, rows2) == after > rows1 /\ after > rows2

\* problematic_values: the values on both sides that repeat on one of them
ProblematicValues(v1, v2) ==
    {<<val, Count(v1, val), Count(v2, val)>> :
        val \in {x \in Range(v1) \cap Range(v2) : Count(v1, x) > 1 \/ Count(v2, x) > 1}}

\* what the simulation prints for the first two files joined on join_col
Simulation(df1, df2, join_col) ==
    LET merged == PdMerge(df1, df2, <<join_col>>, Sfx1, Sfx2)
        after == Len(merged.rows)
        explosion == Explosion(after, Len(df1.rows), Len(df2.rows))
    IN  [csv1 |-> 1, csv2 |-> 2, join_col |-> join_col,
         before1 |-> Len(df1.rows), before2 |-> Len(df2.rows),
         dups1 |-> DuplicatedSum(Column(df1, join_col)),
         dups2 |-> DuplicatedSum(Column(df2, join_col)),
         after |-> after,
         explosion |-> explosion,
         problematic |-> IF explosion
                         THEN ProblematicValues(Column(df1, join_col), Column(df2, join_col))
                         ELSE {}]

\* simulate_merge_step_by_step: the first two files only, joined on
\* common_cols[0], the first name of list(set & set): any common column
SimulateMerge ==
    /\ pc = "dbg_analyzed"
    /\ IF Len(files) >= 2 /\ Range(files[1].columns) \cap Range(files[2].columns) # {}
       THEN \E join_col \in Range(files[1].columns) \cap Range(files[2].columns) :
                sim_report' = <<Simulation(ReadCsv(files[1]), ReadCsv(files[2]), join_col)>>
       ELSE sim_report' = <<>>
    /\ pc' = "dbg_done"
    /\ UNCHANGED <<files, avars, dbg_csvs, dup_report, common_report>>

TextColumnSets == {S \in ColumnSets : S \subseteq 1..2}

\* directories for the debugger: two one-column tables of longer texts, two
\* one-column tables of more rows, and up to MaxDbgCsv short tables
DebugDirectories ==
    DirsOf(2, Tables({{1}}, MaxTextRows, Texts(MaxTextLen)))
    \cup DirsOf(2, Tables({{1}}, MaxRows, Texts(1)))
    \cup UNION {DirsOf(n, Tables(TextColumnSets, MaxChainRows, Texts(1)) \cup {Unreadable}) :
                   n \in 1..MaxDbgCsv}

DebugInit ==
    /\ files \in DebugDirectories
    /\ pc = "start"
    /\ csvs = <<>>
    /\ csv_graph = EmptyGraph
    /\ analysis = NoAnalysis
    /\ merge_path = <<>>
    /\ result = NoFrame
    /\ merged_csvs = {}
    /\ reads = <<>>
    /\ joins = <<>>
    /\ output = <<>>
    /\ dbg_csvs = <<>>
    /\ dup_report = <<>>
    /\ common_report = <<>>
    /\ sim_report = <<>>

DebugNext ==
    \/ DebugLoad
    \/ DebugCheckDuplicates
    \/ DebugValueAnalysis
    \/ SimulateMerge

DebugSpec == DebugInit /\ [][DebugNext]_vars

\* ============================================================ properties
\* the directory's own facts, computed from the files and not from the graph
Loaded == {i \in 1..Len(files) : files[i].ok}

FileColumns(i) == Range(files[i].columns)

Share(a, b) == FileColumns(a) \cap FileColumns(b)

RECURSIVE ShareClosure(_)
ShareClosure(S) ==
    LET S1 == S \cup {b \in Loaded : \E a \in S : Share(a, b) # {}}
    IN  IF S1 = S THEN S ELSE ShareClosure(S1)

ComponentOf(a) == ShareClosure({a})

Components == {ComponentOf(a) : a \in Loaded}

SingleComponent == Cardinality(Components) = 1

HasEdge(G, a, b) == Contains(G.adj[a], b)

GraphBuilt == pc \notin {"start", "loaded"}

\* C1: after build_connection_graph, two distinct loaded datasets have an edge
\* iff they share a column, and the edge's shared_columns, as a set, is
\* exactly the columns they share.
C1_EdgeIffSharedColumns ==
    GraphBuilt =>
        \A a, b \in Loaded :
            a # b =>
                /\ HasEdge(csv_graph, a, b) <=> Share(a, b) # {}
                /\ HasEdge(csv_graph, a, b) =>
                       Range(csv_graph.attr[<<a, b>>]) = Share(a, b)

\* a built graph with an edge labelled by two columns and a pair with no edge
C1_Witness ==
    /\ pc = "built"
    /\ \E a, b \in Loaded :
           a # b /\ HasEdge(csv_graph, a, b) /\ Cardinality(Share(a, b)) = 2
    /\ \E a, b \in Loaded : a # b /\ ~HasEdge(csv_graph, a, b)

Executing == pc \in {"merging", "saved", "raised"}

NewDatasets == [k \in 1..Len(joins) |-> joins[k].new]

Distinct(s) == \A i, j \in 1..Len(s) : i # j => s[i] # s[j]

\* C2: a connected graph of N datasets gives a plan of N-1 steps; executed in
\* order, the steps' new datasets are distinct, none is the first dataset,
\* and at the end they are all the N-1 other datasets.
C2_PlanIntroducesEachDatasetOnce ==
    /\ (analysis.valid /\ SingleComponent) =>
           /\ analysis.merge_path.some
           /\ Len(analysis.merge_path.steps) = Cardinality(Loaded) - 1
    /\ Executing =>
           /\ Distinct(NewDatasets)
           /\ \A k \in 1..Len(joins) : joins[k].new # joins[1].merge[1]
    /\ pc = "saved" =>
           Range(NewDatasets) \cup {joins[1].merge[1]} = Loaded

\* C3: every step after the first joins a dataset next to the merged set:
\* exactly one of the step's two datasets was introduced by earlier steps.
C3_StepTouchesMergedSet ==
    \A k \in 2..Len(joins) :
        Cardinality(Range(joins[k].merge) \cap joins[k].merged_before) = 1

\* C4: when execute_merge has written its table, the table's column names
\* are exactly the column names of the input datasets.
C4_OutputColumnsAreUnion ==
    pc = "saved" =>
        Range(output[1].columns) = UNION {FileColumns(i) : i \in Loaded}

\* C11: at every smart_merge call of execute_merge the step's on_columns is
\* non-empty and each of its columns is a column of the accumulated result
\* (the left frame) and of the newly read dataset (the right frame).
C11_JoinColumnsOnBothSides ==
    \A k \in 1..Len(joins) :
        /\ joins[k].on # <<>>
        /\ Range(joins[k].on) \subseteq Range(joins[k].left.columns)
        /\ Range(joins[k].on) \subseteq Range(joins[k].right.columns)

\* C12: during one execute_merge no dataset is read twice, and no later step
\* reads and joins a dataset that is already in merged_csvs.
C12_EachDatasetReadOnce ==
    /\ Distinct(reads)
    /\ \A k \in 2..Len(joins) : joins[k].new \notin joins[k].merged_before

\* C5: is_mergeable is reported iff the loaded datasets form one connected
\* component; on a disconnected graph no plan is produced and execute_merge
\* returns nothing, having read no table, joined nothing and written nothing.
C5_MergeableIffSingleComponent ==
    /\ analysis.valid =>
           /\ analysis.is_mergeable <=> SingleComponent
           /\ ~SingleComponent => ~analysis.merge_path.some
    /\ (pc \notin {"start", "loaded", "built", "analyzed"} /\ ~SingleComponent) =>
           /\ pc = "returned_none"
           /\ reads = <<>>
           /\ joins = <<>>
           /\ result = NoFrame
           /\ output = <<>>

\* execute_merge returned None on three or more datasets, some of them linked
C5_Witness ==
    /\ pc = "returned_none"
    /\ Cardinality(Loaded) >= 3
    /\ Cardinality(Components) = 2
    /\ \E a, b \in Loaded : a # b /\ HasEdge(csv_graph, a, b)
    /\ ~analysis.is_mergeable

\* the groups the analysis names: its isolated_csvs, one dataset each
ReportedGroups == {{c} : c \in Range(analysis.isolated_csvs)}

\* C6: on a graph of several components the analysis names every component
\* as a group, so each loaded dataset is in exactly one reported group.
C6_EveryComponentReported ==
    (analysis.valid /\ Cardinality(Components) > 1) =>
        /\ ReportedGroups = Components
        /\ \A d \in Loaded : Cardinality({g \in ReportedGroups : d \in g}) = 1

\* the right-side columns that collide: also on the left and not a key
Colliding(j) == (Range(j.right.columns) \cap Range(j.left.columns)) \ Range(j.on)

\* an output row's cells under the left frame's columns
LeftPart(j, row) ==
    [k \in 1..Len(j.left.columns) |-> row[Pos(j.out.columns, j.left.columns[k])]]

\* C7: in every join, a colliding right column does not reach the result
\* (its name occurs once, unsuffixed), the result's cells under the left
\* columns are a left row's (or missing, for a row only the right has), every
\* left row is kept, and each key column occurs exactly once.
C7_LeftWinsAndKeysOnce ==
    \A k \in 1..Len(joins) :
        LET j == joins[k]
        IN  ~j.raised =>
                /\ Range(j.out.columns) = Range(j.left.columns) \cup Range(j.right.columns)
                /\ \A c \in Range(j.on) \cup Colliding(j) : Count(j.out.columns, c) = 1
                /\ \A n \in 1..Len(j.out.rows) :
                       \/ LeftPart(j, j.out.rows[n]) \in Range(j.left.rows)
                       \/ \A c \in Range(j.left.columns) \ Range(j.on) :
                              Cell(j.out, j.out.rows[n], c) = NaN
                /\ \A i \in 1..Len(j.left.rows) :
                       \E n \in 1..Len(j.out.rows) :
                           LeftPart(j, j.out.rows[n]) = j.left.rows[i]

\* a join where a left row and a right row agree on the key and differ under
\* a colliding column
C7_Witness ==
    \E k \in 1..Len(joins) :
        LET j == joins[k]
        IN  /\ ~j.raised
            /\ \E c \in Colliding(j) :
                   \E i \in 1..Len(j.left.rows), m \in 1..Len(j.right.rows) :
                       /\ \A kc \in Range(j.on) :
                              Cell(j.left, j.left.rows[i], kc) = Cell(j.right, j.right.rows[m], kc)
                       /\ Cell(j.left, j.left.rows[i], c) # Cell(j.right, j.right.rows[m], c)

KeyCount(df, K, v) == Cardinality({i \in 1..Len(df.rows) : Cell(df, df.rows[i], K) = v})

\* the rows value v contributes: a*b when on both sides, else its own count
Contribution(a, b) == IF a >= 1 /\ b >= 1 THEN a * b ELSE a + b

RECURSIVE SumOver(_, _)
SumOver(S, f) ==
    IF S = {} THEN 0
    ELSE LET x == CHOOSE y \in S : TRUE IN f[x] + SumOver(S \ {x}, f)

\* C8: in a join on one key column K, each value v occurring a times on the
\* left and b times on the right has a*b rows in the result (its own count
\* when on one side only), and the result has the sum of these rows.
C8_OuterJoinRowCounts ==
    \A k \in 1..Len(joins) :
        LET j == joins[k]
            K == j.on[1]
            contrib == [v \in Vals \cup {NaN} |->
                           Contribution(KeyCount(j.left, K, v), KeyCount(j.right, K, v))]
        IN  (~j.raised /\ Len(j.on) = 1) =>
                /\ \A v \in Vals \cup {NaN} : KeyCount(j.out, K, v) = contrib[v]
                /\ Len(j.out.rows) = SumOver(Vals \cup {NaN}, contrib)

\* left id = [1,1,2] joined with right id = [1,2,2]: 4 rows
C8_Witness ==
    \E k \in 1..Len(joins) :
        LET j == joins[k]
        IN  /\ ~j.raised
            /\ Len(j.on) = 1
            /\ KeysOf(j.left, j.on) = << <<1>>, <<1>>, <<2>> >>
            /\ KeysOf(j.right, j.on) = << <<1>>, <<2>>, <<2>> >>
            /\ Len(j.out.rows) = 4

\* the candidate join columns: the names present in at least two datasets
CandidateCols ==
    {c \in Cols : Cardinality({i \in Loaded : c \in FileColumns(i)}) >= 2}

\* the values of column c in file i
FileValues(i, c) == Column(ReadCsv(files[i]), c)

\* the pairs of datasets that both hold column c
PairsHaving(c) ==
    {p \in Loaded \X Loaded : p[1] < p[2] /\ c \in FileColumns(p[1]) \cap FileColumns(p[2])}

\* the row total of the outer join of a and b on c, from the values' counts
SimulatedTotal(a, b, c) ==
    LET vs == Range(FileValues(a, c)) \cup Range(FileValues(b, c))
    IN  SumOver(vs, [v \in vs |-> Contribution(Count(FileValues(a, c), v),
                                                Count(FileValues(b, c), v))])

CommonReported(c, a, b) ==
    \E k \in 1..Len(common_report) :
        /\ common_report[k].col = c
        /\ common_report[k].csv1 = a
        /\ common_report[k].csv2 = b
        /\ common_report[k].common =
               Cardinality(Range(FileValues(a, c)) \cap Range(FileValues(b, c)))

SimulationReported(c, a, b) ==
    \E k \in 1..Len(sim_report) :
        /\ sim_report[k].join_col = c
        /\ sim_report[k].csv1 = a
        /\ sim_report[k].csv2 = b
        /\ sim_report[k].after = SimulatedTotal(a, b, c)
        /\ sim_report[k].explosion <=>
               (SimulatedTotal(a, b, c) > Len(files[a].rows)
                /\ SimulatedTotal(a, b, c) > Len(files[b].rows))

\* C9 as stated: for every pair of datasets sharing a candidate column, and
\* each such column, the pass reports the common-value count and the
\* simulated outer-join total, with the explosion flag set exactly when the
\* total exceeds both row counts.
C9_EveryPairSimulated ==
    pc = "dbg_done" =>
        \A c \in CandidateCols :
            \A p \in PairsHaving(c) :
                CommonReported(c, p[1], p[2]) /\ SimulationReported(c, p[1], p[2])

\* C9 amended: the common-value count is reported for every such pair and
\* column; the outer join is simulated once, for the first two datasets on
\* one column they share (not at all when they share none), and its explosion
\* flag is set exactly when the total exceeds both row counts.
C9_PairsCountedFirstPairSimulated ==
    /\ pc \in {"dbg_analyzed", "dbg_done"} =>
           \A c \in CandidateCols :
               \A p \in PairsHaving(c) : CommonReported(c, p[1], p[2])
    /\ pc = "dbg_done" =>
           IF Len(files) >= 2 /\ Share(1, 2) # {}
           THEN /\ Len(sim_report) = 1
                /\ \E c \in Share(1, 2) : SimulationReported(c, 1, 2)
           ELSE sim_report = <<>>

\* two rows of one key on each side: 4 rows after the join, flagged
C9_Witness ==
    /\ pc = "dbg_done"
    /\ Len(sim_report) = 1
    /\ sim_report[1].before1 = 2
    /\ sim_report[1].before2 = 2
    /\ sim_report[1].after = 4
    /\ sim_report[1].explosion
    /\ \E k \in 1..Len(common_report) : common_report[k].common = 1

\* trimmed of white space and lower-cased, from the text's first and last
\* characters that are not spaces
NormalText(t) ==
    LET solid == {i \in 1..Len(t) : t[i] # " "}
        lo == CHOOSE i \in solid : \A j \in solid : i <= j
        hi == CHOOSE i \in solid : \A j \in solid : i >= j
        lower == [ch \in Chars |-> IF ch = "A" THEN "a" ELSE ch]
    IN  IF solid = {} THEN <<>>
        ELSE [k \in 1..(hi - lo + 1) |-> lower[t[lo + k - 1]]]

\* the duplicate count: rows minus distinct values
RawDuplicates(i, c) == Len(files[i].rows) - Cardinality(Range(FileValues(i, c)))

NormalDuplicates(i, c) ==
    Len(files[i].rows)
    - Cardinality({NormalText(FileValues(i, c)[n]) : n \in 1..Len(files[i].rows)})

DupEntries(i, c) ==
    {k \in 1..Len(dup_report) : dup_report[k].col = c /\ dup_report[k].csv = i}

DupChecked == pc \in {"dbg_checked", "dbg_analyzed", "dbg_done"}

\* C10: for every candidate column and every dataset holding it there is one
\* report entry; its duplicate count is rows minus distinct values, and its
\* case/whitespace flag is set iff the duplicate count of the normalized
\* values is strictly greater than that of the raw values.
C10_CaseFlagIffMoreNormalDuplicates ==
    DupChecked =>
        \A c \in CandidateCols :
            \A i \in {n \in Loaded : c \in FileColumns(n)} :
                /\ Cardinality(DupEntries(i, c)) = 1
                /\ \A k \in DupEntries(i, c) :
                       /\ dup_report[k].dup_count = RawDuplicates(i, c)
                       /\ dup_report[k].case_flag <=>
                              NormalDuplicates(i, c) > RawDuplicates(i, c)

\* a column holding "A" and "a ": no raw duplicate, one normalized, flagged
C10_Witness ==
    /\ DupChecked
    /\ \E k \in 1..Len(dup_report) :
           /\ FileValues(dup_report[k].csv, dup_report[k].col) = << <<"A">>, <<"a", " ">> >>
           /\ dup_report[k].dup_count = 0
           /\ dup_report[k].case_flag
====
